---- MODULE Spec2Model ----
(***************************************************************************)
(* Model of the invoice ingestion pipeline of FEL-Correos:                 *)
(*   clients/zoho_client.py        ZohoEmailClient (credential, mailbox)   *)
(*   invoices/routers/invoices.py  process_invoices (the orchestrator)     *)
(*   core/services/xml/xml_job.py  download_parse_delete and its helpers   *)
(* One run of process_invoices is a sequence of steps, one per call the    *)
(* handler makes; the mailbox provider, the certification service and the  *)
(* database answer nondeterministically.                                   *)
(***************************************************************************)
EXTENDS Integers, Sequences, FiniteSets, TLC

(* ------------------------------ bounds -------------------------------- *)
MaxMsgs == 2
MaxTime == 1
MaxExpiresIn == 1
MaxItems == 2
MaxBytes == 3

(* ------------------------- program constants -------------------------- *)
HTTP_OK == 200
DefaultExpiresIn == 3600
max_retries == 5
InitialRetryDelay == 1
TAB == 9
LF == 10
CR == 13
FirstAllowed == 32
ReplacementChar == 65533
MillisPerSecond == 1000

(* ---------------------------- value domains --------------------------- *)
Msgs == 1..MaxMsgs

\* access_token values: the one from the settings, one issued by the token
\* endpoint, and Python's None (token_data.get("access_token") on a body
\* without the key)
SettingsToken == "settings_token"
FreshToken == "fresh_token"
NoToken == "None"

\* An answer of the token endpoint.  transport = "error" is a request that
\* failed at the network level (requests.post raises, there is no status).
\* expires is how the body carries expires_in: absent, an integer, or a value
\* int() rejects.  Lifetimes granted by the endpoint are positive.
NoBody == [json |-> FALSE, has_token |-> FALSE, expires |-> "absent", expires_in |-> 0]

TokenResponses ==
    {[transport |-> "error", status |-> 0] @@ NoBody}
    \cup {[transport |-> "ok", status |-> s] @@ NoBody : s \in {204, 401, 500}}
    \cup {[transport |-> "ok", status |-> HTTP_OK] @@ NoBody}
    \cup {[transport |-> "ok", status |-> HTTP_OK, json |-> TRUE, has_token |-> h,
           expires |-> "absent", expires_in |-> 0] : h \in BOOLEAN}
    \cup {[transport |-> "ok", status |-> HTTP_OK, json |-> TRUE, has_token |-> h,
           expires |-> "bad", expires_in |-> 0] : h \in BOOLEAN}
    \cup {[transport |-> "ok", status |-> HTTP_OK, json |-> TRUE, has_token |-> h,
           expires |-> "int", expires_in |-> e] : h \in BOOLEAN, e \in 1..MaxExpiresIn}

\* An answer of a mailbox endpoint: 200, another status, a network failure,
\* or a 200 whose body is not JSON
ApiOutcomes == {"ok", "http_error", "network_error", "bad_json"}

\* Message content: the sequence of its parts.  "txt" is text without anchor,
\* "a_other" an anchor to another site, "a_sat_pdf" an anchor to the
\* certification service that is not an XML download, "a_sat_xml" an anchor
\* whose href matches https://felav02.c.sat.gob.gt/.../descargaXml/...
\* The empty sequence is the empty string.
Htmls == {<<>>, <<"txt", "a_sat_pdf">>, <<"a_other", "a_sat_xml">>}

SatXmlUrl == "https://felav02.c.sat.gob.gt/fel/descargaXml/1"
NoLinkFound == "No link found"

\* NITs; Companies holds one tenant
KnownNit == "nit_tenant"
UnknownNit == "nit_stranger"
CompaniesNit == {KnownNit}

\* What xmltodict gives for the dte:Impuesto children of an item:
\*   "absent"  there is no dte:Impuestos element
\*   "dict"    one dte:Impuesto: a single mapping
\*   "list"    two or more dte:Impuesto: a list of mappings
TaxShapes == {"absent", "dict", "list"}

\* One dte:Item element, by what _map_items reads of it: its place in the
\* document (the value of @NumeroLinea), whether its numeric attributes
\* and children convert with int() and float(), and its tax entries
ItemElement(i, n, tx) == [line |-> i, numeric |-> n, taxes |-> tx]

\* What xmltodict gives for the items of a document:
\*   "absent"  there is no dte:Items element
\*   "empty"   dte:Items has no dte:Item child (its value is None)
\*   "dict"    one dte:Item: a single mapping, not a list
\*   "list"    two or more dte:Item: a list of mappings, in document order
NoItems == [kind |-> "absent", value |-> <<>>]
EmptyItems == [kind |-> "empty", value |-> <<>>]
OneItem == [kind |-> "dict", value |-> <<ItemElement(1, TRUE, "dict")>>]

ItemsShapes ==
    {NoItems, EmptyItems}
    \cup {[kind |-> "dict", value |-> <<ItemElement(1, n, tx)>>] :
             n \in BOOLEAN, tx \in TaxShapes}
    \cup UNION {{[kind |-> "list",
                  value |-> [i \in 1..k |-> ItemElement(i, f[i].n, f[i].tx)]] :
                    f \in [1..k -> [n : BOOLEAN, tx : TaxShapes]]} :
                 k \in 2..MaxItems}

\* The amounts a document states, in whole units: a negative one, zero, a
\* positive one
Amounts == {0 - 1, 0, 1}

\* A downloaded document, by what the mapper reads of it:
\*   wellformed  xmltodict.parse accepts it
\*   path        dte:GTDocumento/dte:SAT/dte:DTE/dte:DatosEmision is present
\*   emisor      dte:Emisor is present
\*   receptor    dte:Receptor is present
\*   nit         @IDReceptor of dte:Receptor ("" without it)
\*   general     dte:DatosGenerales and its @FechaHoraEmision are present
\*   autor       dte:Certificacion/dte:NumeroAutorizacion is present
\*   totales     dte:Totales/dte:GranTotal is present and converts
\*   gran_total  float() of dte:GranTotal (0 without it)
\*   vat         float() of @TotalMontoImpuesto, 0 (the default "0")
\*               without it
\*   items       the items, as above
\* xmltodict.parse returns a mapping with the root element as its one key for
\* every document it accepts, so no document gives an empty parse result.
Unreadable(w, tag) ==
    [wellformed |-> w, path |-> FALSE, emisor |-> FALSE, receptor |-> FALSE,
     nit |-> tag, general |-> FALSE, autor |-> FALSE, totales |-> FALSE,
     gran_total |-> 0, vat |-> 0, items |-> NoItems]

FullDoc ==
    [wellformed |-> TRUE, path |-> TRUE, emisor |-> TRUE, receptor |-> TRUE,
     nit |-> KnownNit, general |-> TRUE, autor |-> TRUE, totales |-> TRUE,
     gran_total |-> 1, vat |-> 0, items |-> OneItem]

\* The documents the certification service serves in a run
Docs ==
    {Unreadable(FALSE, ""), Unreadable(TRUE, "")}
    \cup {[FullDoc EXCEPT !.nit = n, !.totales = h] :
             n \in {KnownNit, UnknownNit}, h \in BOOLEAN}

\* Every document: each block present or not, each shape of the items
AllDocs ==
    {Unreadable(FALSE, ""), Unreadable(TRUE, "")}
    \cup {d \in [wellformed : {TRUE}, path : {TRUE}, emisor : BOOLEAN,
                 receptor : BOOLEAN, nit : {KnownNit, UnknownNit, ""},
                 general : BOOLEAN, autor : BOOLEAN, totales : BOOLEAN,
                 gran_total : Amounts, vat : Amounts, items : ItemsShapes] :
             /\ d.receptor <=> d.nit # ""
             /\ d.totales \/ (d.gran_total = 0 /\ d.vat = 0)}

\* File contents that are no document: no file, and the body of an HTTP error
NoFile == Unreadable(FALSE, "no_file")
ErrorPage == Unreadable(FALSE, "error_page")

\* An answer of the certification service to one GET.  A string that is no
\* URL ("No link found") never reaches a server: httpx raises
\* UnsupportedProtocol, a RequestError, on every attempt.
DownloadResponses(url) ==
    IF url = NoLinkFound
    THEN {[kind |-> "transport_error", body |-> NoFile]}
    ELSE {[kind |-> "ok", body |-> d] : d \in Docs}
         \cup {[kind |-> "http_error", body |-> ErrorPage],
               [kind |-> "transport_error", body |-> NoFile]}

\* download_parse_delete lines 28-29: ts = int(time.time() * 1000) and
\* tmp_path = TMP_DIR / f"xml_{ts}.xml".  The clock is read at the
\* resolution of the model's steps of time: two reads with no step of time
\* between them give the same ts.
Timestamp(t) == t * MillisPerSecond
TmpPath(ts) == <<"/tmp", "xml", ts>>
NoPath == <<>>

\* The value of a call of _map_items before any call is made
NotMapped == [called |-> FALSE, raised |-> FALSE, mapped |-> <<>>]

\* The exceptions that reach the caller of process_invoices: what the client
\* raises, what _download_xml re-raises, and the ValueError of
\* download_parse_delete lines 89-95, which wraps every exception of
\* xmltodict.parse, _invoice_builder and _save_invoice alike
NoError == "no error"
MailboxError == "requests.RequestException"
DownloadError == "httpx.HTTPError"
XmlJobError == "ValueError: [XML_job] Failed to parse XML"

VARIABLES
    now,            \* datetime.now()
    client,         \* the module-level ZohoEmailClient (zoho_client)
    unread,         \* mailbox: the messages whose status is unread
    content,        \* mailbox: the content of each message it holds
    invoices,       \* database: the committed Invoices rows, in commit order
    issuers,        \* database: the committed Issuer rows
    recipients,     \* database: the committed Recipient rows
    items,          \* database: the committed Item rows
    pc,             \* position of the handler
    emails,         \* process_invoices: the listed messages
    idx,            \* process_invoices: position of the loop in emails
    html_content,   \* process_invoices: content of the current message
    xml_url,        \* process_invoices: link of the current message
    xml_errors,     \* process_invoices: the error list
    attempt,        \* _download_xml: loop counter
    retry_delay,    \* _download_xml: delay before the next attempt
    tmp_path,       \* download_parse_delete: the path of its temp file
    tmp_file,       \* the file at tmp_path (NoFile: absent)
    result,         \* how the last run ended
    error,          \* the exception process_invoices re-raised, if any
    \* history
    attempted,      \* messages whose sub-pipeline started in this run
    outcome,        \* how each message's sub-pipeline ended in this run
    committed_in_run, \* messages for which an invoice was committed in this run
    mark_issued,    \* messages for which mark-read was requested in this run
    attempts_made,  \* GET requests sent by the current download
    failures,       \* failed GET requests of the current download
    served,         \* payload of the successful GET of the current download
    slept,          \* delays slept by the current download
    last_doc,       \* the document the current download_parse_delete read
    mapped,         \* the result of its call of _map_items
    last_op,        \* the latest client operation, its requests and its refresh
    peer,           \* the locals of another call of process_invoices, suspended
    \* the decode-and-strip step of download_parse_delete, on bytes
    raw_bytes,      \* the bytes of the temp file
    xml_str,        \* xml_str, a sequence of code points
    norm_pc,        \* position in the step
    norm_pass,      \* 1: the downloaded bytes; 2: the bytes of the first result
    first_str       \* the result of the first pass

vars == <<now, client, unread, content, invoices, issuers, recipients, items,
          pc, emails, idx, html_content, xml_url, xml_errors, attempt,
          retry_delay, tmp_file, result, error, attempted, outcome,
          committed_in_run, mark_issued, attempts_made, failures, served,
          slept, last_doc, mapped, last_op, tmp_path, peer, raw_bytes,
          xml_str, norm_pc, norm_pass, first_str>>

run_locals == <<emails, idx, html_content, xml_url, xml_errors>>
download_vars == <<attempt, retry_delay, tmp_path, tmp_file, attempts_made,
                   failures, served, slept>>
db_tables == <<invoices, issuers, recipients, items>>
store_vars == <<unread, content, db_tables>>
doc_history == <<last_doc, mapped>>
norm_vars == <<raw_bytes, xml_str, norm_pc, norm_pass, first_str>>
handler_vars == <<now, client, unread, content, db_tables, pc, emails, idx,
                  html_content, xml_url, xml_errors, attempt, retry_delay,
                  tmp_file, result, error, attempted, outcome,
                  committed_in_run, mark_issued, attempts_made, failures,
                  served, slept, last_doc, mapped, last_op, tmp_path, peer>>

\* The decode-and-strip step is not followed byte by byte
NormIdle ==
    /\ raw_bytes = <<>>
    /\ xml_str = <<>>
    /\ norm_pc = "idle"
    /\ norm_pass = 1
    /\ first_str = <<>>
run_history == <<attempted, outcome, committed_in_run, mark_issued>>

\* The locals of a call of process_invoices that has not started
IdleRun ==
    [pc |-> "idle", emails |-> <<>>, idx |-> 0, html_content |-> <<>>,
     xml_url |-> "", xml_errors |-> <<>>, attempt |-> 0,
     retry_delay |-> InitialRetryDelay, tmp_path |-> NoPath,
     tmp_file |-> NoFile, result |-> "none", error |-> NoError,
     attempted |-> <<>>, outcome |-> [m \in Msgs |-> "none"],
     committed_in_run |-> {}, mark_issued |-> {}, attempts_made |-> 0,
     failures |-> 0, served |-> NoFile, slept |-> <<>>, last_doc |-> NoFile,
     mapped |-> NotMapped]

\* The locals of the call that is running, with the file at its tmp_path
RunLocals ==
    [pc |-> pc, emails |-> emails, idx |-> idx, html_content |-> html_content,
     xml_url |-> xml_url, xml_errors |-> xml_errors, attempt |-> attempt,
     retry_delay |-> retry_delay, tmp_path |-> tmp_path,
     tmp_file |-> tmp_file, result |-> result, error |-> error,
     attempted |-> attempted, outcome |-> outcome,
     committed_in_run |-> committed_in_run, mark_issued |-> mark_issued,
     attempts_made |-> attempts_made, failures |-> failures,
     served |-> served, slept |-> slept, last_doc |-> last_doc,
     mapped |-> mapped]

\* The file a call finds at path p: /tmp is one directory for every call,
\* so it is the suspended call's file when that call's tmp_path is p
FileAt(p) == IF p # NoPath /\ peer.tmp_path = p THEN peer.tmp_file ELSE NoFile

\* The suspended call after the running call left f at path p
SamePath(p) == p # NoPath /\ peer.tmp_path = p
PeerSeeing(p, f) == IF SamePath(p) THEN [peer EXCEPT !.tmp_file = f] ELSE peer

(* ----------------------- ZohoEmailClient ------------------------------ *)

\* ZohoEmailClient.__init__
NewClient(t) ==
    [client_id |-> "client_id", client_secret |-> "client_secret",
     access_token |-> SettingsToken, refresh_token |-> "refresh_token",
     token_expiry |-> t - 1]

\* datetime.now() >= self.token_expiry
Expired(c, t) == t >= c.token_expiry

\* refresh_access_token that stores the body's token before it looks at the
\* status
RefreshAccessTokenEarlyStore(c, resp, t) ==
    LET c1 == [c EXCEPT !.access_token =
                   IF resp.has_token THEN FreshToken ELSE NoToken]
    IN  IF resp.transport = "error" THEN [client |-> c, raised |-> TRUE]
        ELSE IF resp.status # HTTP_OK \/ ~resp.json \/ resp.expires = "bad"
        THEN [client |-> c1, raised |-> TRUE]
        ELSE [client |-> [c1 EXCEPT !.token_expiry =
                             t + (IF resp.expires = "absent"
                                  THEN DefaultExpiresIn
                                  ELSE resp.expires_in)],
              raised |-> FALSE]

\* refresh_access_token that stores the body's token but leaves the expiry
\* instant alone when the body carries no access_token
RefreshAccessTokenExpiryNeedsToken(c, resp, t) ==
    IF resp.transport = "error" \/ resp.status # HTTP_OK
    THEN [client |-> c, raised |-> TRUE]
    ELSE IF ~resp.json
    THEN [client |-> c, raised |-> TRUE]
    ELSE LET c1 == [c EXCEPT !.access_token =
                        IF resp.has_token THEN FreshToken ELSE NoToken]
         IN  IF resp.expires = "bad"
             THEN [client |-> c1, raised |-> TRUE]
             ELSE IF ~resp.has_token
             THEN [client |-> c1, raised |-> FALSE]
             ELSE [client |-> [c1 EXCEPT !.token_expiry =
                                  t + (IF resp.expires = "absent"
                                       THEN DefaultExpiresIn
                                       ELSE resp.expires_in)],
                   raised |-> FALSE]

\* refresh_access_token: the client after the call and whether it raised
RefreshAccessToken(c, resp, t) ==
    IF resp.transport = "error" \/ resp.status # HTTP_OK
    THEN [client |-> c, raised |-> TRUE]
    ELSE IF ~resp.json
    THEN [client |-> c, raised |-> TRUE]
    ELSE LET c1 == [c EXCEPT !.access_token =
                        IF resp.has_token THEN FreshToken ELSE NoToken]
         IN  IF resp.expires = "bad"
             THEN [client |-> c1, raised |-> TRUE]
             ELSE [client |-> [c1 EXCEPT !.token_expiry =
                                  t + (IF resp.expires = "absent"
                                       THEN DefaultExpiresIn
                                       ELSE resp.expires_in)],
                   raised |-> FALSE]

\* One entry of an operation's request log: a request to the token endpoint
\* or to the mailbox API, and whether the token's expiry instant had passed
\* when it was sent
RefreshEvent(c, t) == [ev |-> "refresh", expired |-> Expired(c, t)]
RequestEvent(c, t) == [ev |-> "request", expired |-> Expired(c, t)]

\* How a token response is classified by the status it carries
ResponseKind(resp) ==
    IF resp.transport = "error" THEN "network_error"
    ELSE IF resp.status < 200 \/ resp.status > 299 THEN "non_2xx"
    ELSE IF resp.status # HTTP_OK THEN "2xx_not_200"
    ELSE "200"

\* connect: refresh when the token is expired
Connect(c, resp, t) ==
    IF Expired(c, t)
    THEN LET r == RefreshAccessToken(c, resp, t)
         IN  [client |-> r.client, raised |-> r.raised,
              log |-> <<RefreshEvent(c, t)>>, refresh |-> ResponseKind(resp)]
    ELSE [client |-> c, raised |-> FALSE, log |-> <<>>, refresh |-> "none"]

\* The responses an operation draws from for a refresh it performs
UnusedResponse == [transport |-> "ok", status |-> 0] @@ NoBody
RefreshInputs(needed) == IF needed THEN TokenResponses ELSE {UnusedResponse}

\* get_unread_messages: no validity check; one GET with the stored token
GetUnreadMessages(c, api, t) ==
    [client |-> c, raised |-> api # "ok", log |-> <<RequestEvent(c, t)>>,
     refresh |-> "none"]

\* The second check of get_email_content reading the expiry it saw before
\* connect()
SecondCheckStale(c, c1, t) == Expired(c, t)

\* get_email_content line 140: the check repeated after connect(); c is the
\* client before connect(), c1 the client after it
SecondCheck(c, c1, t) == Expired(c1, t)

\* get_email_content: connect(), the same check again, then one GET
GetEmailContent(c, resp1, resp2, api, t) ==
    LET r1 == Connect(c, resp1, t)
    IN  IF r1.raised THEN r1
        ELSE LET r2 == IF SecondCheck(c, r1.client, t)
                       THEN LET r == RefreshAccessToken(r1.client, resp2, t)
                            IN  [client |-> r.client, raised |-> r.raised,
                                 log |-> r1.log \o <<RefreshEvent(r1.client, t)>>,
                                 refresh |-> ResponseKind(resp2)]
                       ELSE r1
             IN  IF r2.raised THEN r2
                 ELSE [client |-> r2.client, raised |-> api # "ok",
                       log |-> r2.log \o <<RequestEvent(r2.client, t)>>,
                       refresh |-> r2.refresh]

\* mark_messages_as_read without its try/except: the failure of the PUT
\* reaches the caller
MarkMessagesAsReadRaising(c, api, t) ==
    [client |-> c, raised |-> api \notin {"ok", "bad_json"},
     log |-> <<RequestEvent(c, t)>>, refresh |-> "none",
     marked |-> api \in {"ok", "bad_json"}]

\* mark_messages_as_read: no validity check; one PUT; a failure is logged
\* and swallowed
MarkMessagesAsRead(c, api, t) ==
    [client |-> c, raised |-> FALSE, log |-> <<RequestEvent(c, t)>>,
     refresh |-> "none", marked |-> api \in {"ok", "bad_json"}]

\* extract_xml_link: the href of the first anchor the pattern matches, and the
\* string "No link found" when none does
RECURSIVE extract_xml_link(_)
extract_xml_link(html) ==
    IF html = <<>> THEN NoLinkFound
    ELSE IF Head(html) = "a_sat_xml" THEN SatXmlUrl
    ELSE extract_xml_link(Tail(html))

\* Python truthiness of a string or a list
Truthy(s) == Len(s) > 0
TruthyStr(s) == s # ""

\* The record kept of the latest client operation
OpRecord(name, c, t, r) ==
    [name |-> name, expired_at_start |-> Expired(c, t), log |-> r.log,
     refresh |-> r.refresh, refresh_raised |-> r.refresh # "none" /\ r.raised
                                               /\ r.log[Len(r.log)].ev = "refresh",
     before |-> c]

Init ==
    /\ now = 0
    /\ client = NewClient(now)
    /\ \E n \in 0..MaxMsgs : unread = 1..n /\ content \in [1..n -> Htmls]
    /\ invoices = <<>>
    /\ issuers = <<>>
    /\ recipients = <<>>
    /\ items = <<>>
    /\ error = NoError
    /\ last_doc = NoFile
    /\ mapped = NotMapped
    /\ pc = "import"
    /\ emails = <<>>
    /\ idx = 0
    /\ html_content = <<>>
    /\ xml_url = ""
    /\ xml_errors = <<>>
    /\ attempt = 0
    /\ retry_delay = InitialRetryDelay
    /\ tmp_path = NoPath
    /\ tmp_file = NoFile
    /\ peer = IdleRun
    /\ result = "none"
    /\ attempted = <<>>
    /\ outcome = [m \in Msgs |-> "none"]
    /\ committed_in_run = {}
    /\ mark_issued = {}
    /\ attempts_made = 0
    /\ failures = 0
    /\ served = NoFile
    /\ slept = <<>>
    /\ last_op = [name |-> "none", expired_at_start |-> FALSE, log |-> <<>>,
                  refresh |-> "none", refresh_raised |-> FALSE,
                  before |-> client]
    /\ NormIdle

\* zoho_client = ZohoEmailClient(); zoho_client.connect() at import of the
\* router module.  A failed connect fails the import.
ModuleConnect ==
    /\ pc = "import"
    /\ \E resp \in RefreshInputs(Expired(client, now)) :
         LET r == Connect(client, resp, now)
         IN  /\ client' = r.client
             /\ pc' = IF r.raised THEN "crashed" ELSE "idle"
             /\ last_op' = OpRecord("connect", client, now, r)
    /\ UNCHANGED <<now, result, error, run_locals, download_vars, store_vars,
                   run_history, doc_history>>
    /\ UNCHANGED <<peer, norm_vars>>

\* Time passes.  The client's operations read the clock, and
\* download_parse_delete reads it when it is entered, right after
\* get_email_content; the steps of time are taken where the next step of
\* the handler is an operation of the client.
Tick ==
    /\ pc \in {"import", "idle", "fetch", "mark"}
    /\ now < MaxTime
    /\ now' = now + 1
    /\ UNCHANGED <<client, pc, result, error, run_locals, download_vars,
                   store_vars, run_history, doc_history, last_op>>
    /\ UNCHANGED <<peer, norm_vars>>

(* ----------------------- download_parse_delete ------------------------- *)

\* _download_xml line 321: the failed attempt a (counted from 0) is the last
LastAttempt(a) == a + 1 = max_retries

\* _download_xml line 309: a is in range(max_retries)
InRange(a) == a < max_retries

\* DownloadStep with the payload written before the status is checked
DownloadStepStoresErrorBody(a, resp) ==
    IF resp.kind \in {"ok", "http_error"} THEN "stored"
    ELSE IF LastAttempt(a) THEN "raise"
    ELSE IF InRange(a + 1) THEN "retry"
    ELSE "exhausted"

\* DownloadStep with the last attempt recognised one iteration late
DownloadStepOffByOne(a, resp) ==
    IF resp.kind = "ok" THEN "stored"
    ELSE IF a = max_retries THEN "raise"
    ELSE IF InRange(a + 1) THEN "retry"
    ELSE "exhausted"

\* DownloadStep that sleeps after the last failed attempt as after the
\* others, and then falls out of the loop
DownloadStepSleepsAfterLast(a, resp) ==
    IF resp.kind = "ok" THEN "stored"
    ELSE IF InRange(a + 1) THEN "retry"
    ELSE "exhausted"

\* _download_xml, one iteration of its loop: what follows the answer resp to
\* attempt number a (counted from 0)
\*   "stored"    the payload is written to the temp file and the loop breaks
\*   "raise"     the error of the last attempt is re-raised
\*   "retry"     sleep retry_delay, then the next iteration
\*   "exhausted" sleep retry_delay, then the loop is out of iterations and
\*               the function returns None
DownloadStep(a, resp) ==
    IF resp.kind = "ok" THEN "stored"
    ELSE IF LastAttempt(a) THEN "raise"
    ELSE IF InRange(a + 1) THEN "retry"
    ELSE "exhausted"

\* What the database answers during one call of download_parse_delete: both
\* statements succeed, the query of Companies fails, or the commit fails
DbOutcomes == {"ok", "query_error", "commit_error"}

\* _get_companyid_by_nit: the tenant of a NIT, "" (None) when there is none
GetCompanyIdByNit(nit) == IF nit \in CompaniesNit THEN "company_of_" \o nit ELSE ""

\* issuance_data.get("dte:Items", {}).get("dte:Item", []): the default list
\* without dte:Items, AttributeError on the None of an empty dte:Items
ItemsRaw(doc) ==
    IF doc.items.kind = "empty" THEN [raised |-> TRUE, raw |-> doc.items]
    ELSE IF doc.items.kind = "absent"
    THEN [raised |-> FALSE, raw |-> [kind |-> "list", value |-> <<>>]]
    ELSE [raised |-> FALSE, raw |-> doc.items]

\* _map_items line 236 and lines 248-257: taxs is the dte:Impuesto of the
\* item, the empty mapping without dte:Impuestos; taxs.get raises
\* AttributeError on a list
TaxsGetRaises(tx) == tx = "list"
Taxes(tx) == IF tx = "dict" THEN "of the one entry" ELSE "defaults"

\* Item(...) for one element: whether it raises, and the Item
MapItem(e) ==
    [raised |-> ~e.numeric \/ TaxsGetRaises(e.taxes),
     item |-> [line_number |-> e.line, taxes |-> Taxes(e.taxes)]]

\* _map_items without the isinstance coercion: the loop runs over the keys
\* of the single mapping, and .get on a key raises
MapItemsNoCoercion(items_raw) ==
    LET elems == items_raw.value
    IN  IF items_raw.kind # "list" \/ \E i \in 1..Len(elems) : MapItem(elems[i]).raised
        THEN [called |-> TRUE, raised |-> TRUE, mapped |-> <<>>]
        ELSE [called |-> TRUE, raised |-> FALSE,
              mapped |-> [i \in 1..Len(elems) |-> MapItem(elems[i]).item]]

\* _map_items: a value that is no list becomes the list of that one value;
\* one Item per element, in order; an element whose Item(...) raises ends
\* the call
MapItems(items_raw) ==
    LET elems == IF items_raw.kind # "list"
                 THEN <<items_raw.value[1]>> ELSE items_raw.value
    IN  IF \E i \in 1..Len(elems) : MapItem(elems[i]).raised
        THEN [called |-> TRUE, raised |-> TRUE, mapped |-> <<>>]
        ELSE [called |-> TRUE, raised |-> FALSE,
              mapped |-> [i \in 1..Len(elems) |-> MapItem(elems[i]).item]]

\* _build_issuer_recipient_items: the indexing of the path raises KeyError;
\* dte:Emisor and dte:Receptor are read with .get(..., {}), so a block that
\* is absent gives an Issuer or a Recipient of empty strings
BuildIssuerRecipientItems(doc) ==
    IF ~doc.path \/ ItemsRaw(doc).raised
    THEN [raised |-> TRUE, issuer |-> [nit |-> ""], recipient |-> [nit |-> ""],
          item_map |-> NotMapped]
    ELSE [raised |-> MapItems(ItemsRaw(doc).raw).raised,
          issuer |-> [nit |-> IF doc.emisor THEN "nit_issuer" ELSE ""],
          recipient |-> [nit |-> doc.nit],
          item_map |-> MapItems(ItemsRaw(doc).raw)]

\* _build_invoice: indexing dte:DatosGenerales, dte:Certificacion,
\* dte:NumeroAutorizacion, dte:Totales, dte:GranTotal or @FechaHoraEmision
\* raises when the key is absent; total and vat are the float() of what the
\* document states
BuildInvoice(doc, url, parts, company_id) ==
    IF ~doc.general \/ ~doc.autor \/ ~doc.totales
    THEN [raised |-> TRUE, invoice |-> <<>>]
    ELSE [raised |-> FALSE,
          invoice |-> <<[xml_url |-> url, nit |-> parts.recipient.nit,
                         company_id |-> company_id, total |-> doc.gran_total,
                         vat |-> doc.vat, issuer |-> parts.issuer,
                         recipient |-> parts.recipient,
                         lines |-> parts.item_map.mapped]>>]

\* _invoice_builder that goes on to _build_invoice when no tenant is found
InvoiceBuilderNoTenantCheck(doc, url, db) ==
    LET parts == BuildIssuerRecipientItems(doc)
        company_id == GetCompanyIdByNit(parts.recipient.nit)
    IN  IF parts.raised \/ db = "query_error"
        THEN [kind |-> "raise", invoice |-> <<>>]
        ELSE IF BuildInvoice(doc, url, parts, company_id).raised
        THEN [kind |-> "raise", invoice |-> <<>>]
        ELSE [kind |-> "invoice",
              invoice |-> BuildInvoice(doc, url, parts, company_id).invoice]

\* _invoice_builder: "raise", "none" (no tenant) or "invoice", with the
\* Invoices object and what hangs on it (a sequence of one, empty without)
InvoiceBuilder(doc, url, db) ==
    LET parts == BuildIssuerRecipientItems(doc)
        company_id == GetCompanyIdByNit(parts.recipient.nit)
    IN  IF parts.raised \/ db = "query_error"
        THEN [kind |-> "raise", invoice |-> <<>>]
        ELSE IF ~TruthyStr(company_id)
        THEN [kind |-> "none", invoice |-> <<>>]
        ELSE IF BuildInvoice(doc, url, parts, company_id).raised
        THEN [kind |-> "raise", invoice |-> <<>>]
        ELSE [kind |-> "invoice",
              invoice |-> BuildInvoice(doc, url, parts, company_id).invoice]

\* The flush as an upsert on xml_url: a document ingested before has its
\* Invoices row overwritten instead of a new row added
FlushedUpsert(t, inv) ==
    LET id == Len(t.invoices) + 1
        row == [xml_url |-> inv.xml_url, nit |-> inv.nit,
                company_id |-> inv.company_id, total |-> inv.total,
                vat |-> inv.vat]
    IN  IF \E i \in 1..Len(t.invoices) : t.invoices[i].xml_url = inv.xml_url
        THEN [t EXCEPT !.invoices = [i \in 1..Len(t.invoices) |->
                                        IF t.invoices[i].xml_url = inv.xml_url
                                        THEN row ELSE t.invoices[i]]]
        ELSE [invoices |-> Append(t.invoices, row),
              issuers |-> Append(t.issuers, [invoice |-> id, nit |-> inv.issuer.nit]),
              recipients |-> Append(t.recipients,
                               [invoice |-> id, nit |-> inv.recipient.nit]),
              items |-> t.items \o [i \in 1..Len(inv.lines) |->
                                      [invoice |-> id,
                                       line_number |-> inv.lines[i].line_number]]]

\* The flush under a unique index on xml_url with ON CONFLICT DO NOTHING: a
\* document some call has persisted is not inserted again
FlushedUniqueUrl(t, inv) ==
    LET id == Len(t.invoices) + 1
    IN  IF \E i \in 1..Len(t.invoices) : t.invoices[i].xml_url = inv.xml_url
        THEN t
        ELSE [invoices |-> Append(t.invoices,
                             [xml_url |-> inv.xml_url, nit |-> inv.nit,
                              company_id |-> inv.company_id, total |-> inv.total,
                              vat |-> inv.vat]),
              issuers |-> Append(t.issuers, [invoice |-> id, nit |-> inv.issuer.nit]),
              recipients |-> Append(t.recipients,
                               [invoice |-> id, nit |-> inv.recipient.nit]),
              items |-> t.items \o [i \in 1..Len(inv.lines) |->
                                      [invoice |-> id,
                                       line_number |-> inv.lines[i].line_number]]]

\* The tables after the flush of an Invoices object: its row and the rows
\* of its Issuer, its Recipient and its Items, each carrying the number of
\* the invoice
Flushed(t, inv) ==
    LET id == Len(t.invoices) + 1
    IN  [invoices |-> Append(t.invoices,
                        [xml_url |-> inv.xml_url, nit |-> inv.nit,
                         company_id |-> inv.company_id, total |-> inv.total,
                         vat |-> inv.vat]),
         issuers |-> Append(t.issuers, [invoice |-> id, nit |-> inv.issuer.nit]),
         recipients |-> Append(t.recipients,
                          [invoice |-> id, nit |-> inv.recipient.nit]),
         items |-> t.items \o [i \in 1..Len(inv.lines) |->
                                 [invoice |-> id,
                                  line_number |-> inv.lines[i].line_number]]]

\* _save_invoice inside one transaction for the whole run: a failed commit
\* rolls back the invoices of the messages before it
SaveInvoiceRunTransaction(t, inv, db) ==
    IF db = "commit_error"
    THEN [raised |-> TRUE,
          tables |-> [invoices |-> <<>>, issuers |-> <<>>,
                      recipients |-> <<>>, items |-> <<>>]]
    ELSE [raised |-> FALSE, tables |-> Flushed(t, inv)]

\* _save_invoice: db.add, db.commit, db.refresh.  The commit is one
\* transaction of the database: when it fails, no row of the flush stays,
\* and the exception is re-raised
SaveInvoice(t, inv, db) ==
    IF db = "commit_error" THEN [raised |-> TRUE, tables |-> t]
    ELSE [raised |-> FALSE, tables |-> Flushed(t, inv)]

\* download_parse_delete after the download: how the call ends for the
\* document in the temp file, the database's answer and the tables t
\*   "parse_error"    raises ValueError (xmltodict or the builder failed)
\*   "no_tenant"      returns None
\*   "persist_error"  raises ValueError (the commit failed)
\*   "committed"      returns after the commit
ParseAndSave(doc, url, db, t) ==
    LET built == InvoiceBuilder(doc, url, db)
    IN  IF ~doc.wellformed \/ built.kind = "raise"
        THEN [outcome |-> "parse_error", tables |-> t, error |-> XmlJobError]
        ELSE IF built.kind = "none"
        THEN [outcome |-> "no_tenant", tables |-> t, error |-> NoError]
        ELSE IF SaveInvoice(t, built.invoice[1], db).raised
        THEN [outcome |-> "persist_error",
              tables |-> SaveInvoice(t, built.invoice[1], db).tables,
              error |-> XmlJobError]
        ELSE [outcome |-> "committed",
              tables |-> SaveInvoice(t, built.invoice[1], db).tables,
              error |-> NoError]

\* The call of _map_items made while the document is built, if any
MappedBy(doc) ==
    IF doc.wellformed THEN BuildIssuerRecipientItems(doc).item_map ELSE NotMapped

\* Whether download_parse_delete ends by raising
Raises(o) == o \in {"parse_error", "persist_error", "download_failed"}

\* The temp file when the deletion is the last statement of the try body
\* instead of a finally clause
UnlinkAtEndOfTry(file, o) == IF o = "committed" THEN NoFile ELSE file

\* download_parse_delete, lines 97-106: the finally clause,
\* tmp_path.unlink(missing_ok=True), on the way out of the call that ends
\* as o
FinallyUnlink(file, o) == NoFile

(* --------------------------- process_invoices ------------------------- *)

\* The list the mailbox returns for a set of unread messages.  Messages are
\* numbered in the order the mailbox lists them, so every listing order of
\* every assignment of contents is one of the initial states.
RECURSIVE Listing(_)
Listing(S) ==
    IF S = {} THEN <<>>
    ELSE LET m == CHOOSE x \in S : \A y \in S : x <= y
         IN  <<m>> \o Listing(S \ {m})

message_id == emails[idx]

\* A `break` where the loop body has `continue` or ends: the run returns
\* after the current message
AdvanceLoopBreaks == idx' = idx /\ pc' = "done" /\ result' = "returned"

\* `continue`, or the end of the loop body: the next message, or the end of
\* the run
AdvanceLoop ==
    IF idx < Len(emails)
    THEN idx' = idx + 1 /\ pc' = "fetch" /\ result' = result
    ELSE idx' = idx /\ pc' = "done" /\ result' = "returned"

\* An exception of a message's sub-pipeline caught inside the loop: the run
\* goes on with the next message
RaiseCaughtInLoop ==
    IF idx < Len(emails)
    THEN idx' = idx + 1 /\ pc' = "fetch" /\ result' = result
    ELSE idx' = idx /\ pc' = "done" /\ result' = "returned"

\* An exception reaches `except Exception as e: raise e`
RaiseToCaller == idx' = idx /\ pc' = "done" /\ result' = "raised"

\* What the caller of process_invoices receives when a run ends as res:
\* the empty list of line 34, the None of a function that ends without a
\* return statement, or the exception; xml_errors is local and is dropped
Response(res) ==
    [body |-> IF res = "returned_empty" THEN "empty list"
              ELSE IF res = "returned" THEN "None" ELSE "exception",
     attempted |-> 0, succeeded |-> 0, failed |-> 0, failures |-> <<>>]

\* What process_invoices does with the return of download_parse_delete:
\* line 65 drops it, line 68 marks the message read
AfterDownloadParseDelete(o) == IF Raises(o) THEN "raise" ELSE "mark"

\* process_invoices up to the loop: get_unread_messages
ListUnread ==
    /\ pc = "idle"
    /\ \E api \in ApiOutcomes :
         LET r == GetUnreadMessages(client, api, now)
             order == Listing(unread)
         IN  /\ last_op' = OpRecord("get_unread_messages", client, now, r)
             /\ client' = r.client
             /\ emails' = IF r.raised THEN <<>> ELSE order
             /\ error' = IF r.raised THEN MailboxError ELSE NoError
             /\ IF r.raised
                THEN pc' = "done" /\ result' = "raised" /\ idx' = 0
                ELSE IF ~Truthy(order)
                THEN pc' = "done" /\ result' = "returned_empty" /\ idx' = 0
                ELSE pc' = "fetch" /\ result' = "none" /\ idx' = 1
    /\ xml_errors' = <<>>
    /\ attempted' = <<>>
    /\ outcome' = [m \in Msgs |-> "none"]
    /\ committed_in_run' = {}
    /\ mark_issued' = {}
    /\ attempt' = 0
    /\ retry_delay' = InitialRetryDelay
    /\ tmp_path' = NoPath
    /\ tmp_file' = NoFile
    /\ attempts_made' = 0
    /\ failures' = 0
    /\ served' = NoFile
    /\ slept' = <<>>
    /\ last_doc' = NoFile
    /\ mapped' = NotMapped
    /\ UNCHANGED <<now, html_content, xml_url, store_vars>>
    /\ UNCHANGED <<peer, norm_vars>>

\* Loop body, lines 40-55: get_email_content and the empty-content branch
FetchContent ==
    /\ pc = "fetch"
    /\ attempted' = Append(attempted, message_id)
    /\ \E resp1 \in RefreshInputs(Expired(client, now)), api \in ApiOutcomes :
       \E resp2 \in RefreshInputs(~Connect(client, resp1, now).raised
                                  /\ SecondCheck(client, Connect(client, resp1, now).client, now)) :
         LET r == GetEmailContent(client, resp1, resp2, api, now)
             html == content[message_id]
         IN  /\ last_op' = OpRecord("get_email_content", client, now, r)
             /\ client' = r.client
             /\ IF r.raised
                THEN /\ outcome' = [outcome EXCEPT ![message_id] =
                                      IF r.log[Len(r.log)].ev = "refresh"
                                      THEN "auth_error" ELSE "fetch_error"]
                     /\ RaiseToCaller
                     /\ error' = MailboxError
                     /\ UNCHANGED <<html_content, xml_errors>>
                ELSE /\ html_content' = html
                     /\ error' = error
                     /\ IF ~Truthy(html)
                        THEN /\ xml_errors' = Append(xml_errors,
                                   [messageId |-> message_id,
                                    error |-> "Failed to fetch content"])
                             /\ outcome' = [outcome EXCEPT ![message_id] = "fetch_empty"]
                             /\ AdvanceLoop
                        ELSE /\ pc' = "extract" /\ idx' = idx /\ result' = result
                             /\ UNCHANGED <<xml_errors, outcome>>
    /\ UNCHANGED <<now, emails, xml_url, download_vars, store_vars,
                   committed_in_run, mark_issued, doc_history>>
    /\ UNCHANGED <<peer, norm_vars>>

\* Loop body, lines 56-63: extract_xml_link and the no-link branch; entering
\* download_parse_delete
ExtractLink ==
    /\ pc = "extract"
    /\ xml_url' = extract_xml_link(html_content)
    /\ IF ~TruthyStr(xml_url')
       THEN /\ xml_errors' = Append(xml_errors,
                  [messageId |-> message_id, error |-> "No XML link found"])
            /\ outcome' = [outcome EXCEPT ![message_id] = "no_link"]
            /\ AdvanceLoop
       ELSE /\ pc' = "download" /\ idx' = idx /\ result' = result
            /\ UNCHANGED <<xml_errors, outcome>>
    /\ attempt' = 0
    /\ retry_delay' = InitialRetryDelay
    /\ tmp_path' = IF TruthyStr(xml_url') THEN TmpPath(Timestamp(now)) ELSE NoPath
    /\ tmp_file' = FileAt(tmp_path')
    /\ attempts_made' = 0
    /\ failures' = 0
    /\ served' = NoFile
    /\ slept' = <<>>
    /\ last_doc' = NoFile
    /\ mapped' = NotMapped
    /\ UNCHANGED <<now, client, emails, html_content, store_vars, error,
                   attempted, committed_in_run, mark_issued, last_op>>
    /\ UNCHANGED <<peer, norm_vars>>

\* _download_xml: one GET and what follows it
DownloadAttempt ==
    /\ pc = "download"
    /\ attempts_made' = attempts_made + 1
    /\ \E resp \in DownloadResponses(xml_url) :
         LET step == DownloadStep(attempt, resp)
         IN  /\ failures' = IF resp.kind = "ok" THEN failures ELSE failures + 1
             /\ served' = IF resp.kind = "ok" THEN resp.body ELSE served
             /\ tmp_file' = IF step = "stored" THEN resp.body
                           ELSE IF step = "raise"
                           THEN FinallyUnlink(tmp_file, "download_failed")
                           ELSE tmp_file
             /\ tmp_path' = IF step = "raise" THEN NoPath ELSE tmp_path
             /\ error' = IF step = "raise" THEN DownloadError ELSE error
             /\ attempt' = IF step = "retry" THEN attempt + 1 ELSE attempt
             /\ retry_delay' = IF step \in {"retry", "exhausted"}
                               THEN retry_delay + 1 ELSE retry_delay
             /\ slept' = IF step \in {"retry", "exhausted"}
                         THEN Append(slept, retry_delay) ELSE slept
             /\ CASE step = "stored" ->
                       /\ pc' = "parse" /\ idx' = idx /\ result' = result
                       /\ UNCHANGED outcome
                  [] step = "retry" ->
                       /\ pc' = "download" /\ idx' = idx /\ result' = result
                       /\ UNCHANGED outcome
                  [] step = "raise" ->
                       /\ outcome' = [outcome EXCEPT ![message_id] = "download_failed"]
                       /\ IF AfterDownloadParseDelete("download_failed") = "raise"
                          THEN RaiseToCaller
                          ELSE pc' = "mark" /\ idx' = idx /\ result' = result
                  [] OTHER ->
                       /\ pc' = "parse" /\ idx' = idx /\ result' = result
                       /\ UNCHANGED outcome
    /\ UNCHANGED <<now, client, emails, html_content, xml_url, xml_errors,
                   store_vars, attempted, committed_in_run, mark_issued,
                   doc_history, last_op>>
    /\ peer' = PeerSeeing(tmp_path, tmp_file')
    /\ UNCHANGED norm_vars

\* The tables of the database
Tables ==
    [invoices |-> invoices, issuers |-> issuers, recipients |-> recipients,
     items |-> items]

\* download_parse_delete, lines 34-106: decode, parse, build, save, and the
\* finally clause that deletes the temp file
ParseAndPersist ==
    /\ pc = "parse"
    /\ \E db \in DbOutcomes :
       \E r \in {IF tmp_file = NoFile
                 THEN [outcome |-> "no_file", tables |-> Tables, error |-> NoError]
                 ELSE ParseAndSave(tmp_file, xml_url, db, Tables)} :
         LET o == r.outcome
         IN  /\ outcome' = [outcome EXCEPT ![message_id] = o]
             /\ invoices' = r.tables.invoices
             /\ issuers' = r.tables.issuers
             /\ recipients' = r.tables.recipients
             /\ items' = r.tables.items
             /\ committed_in_run' = IF o = "committed"
                                    THEN committed_in_run \cup {message_id}
                                    ELSE committed_in_run
             /\ error' = IF Raises(o) THEN r.error ELSE error
             /\ tmp_file' = FinallyUnlink(tmp_file, o)
             /\ IF AfterDownloadParseDelete(o) = "raise"
                THEN RaiseToCaller
                ELSE pc' = "mark" /\ idx' = idx /\ result' = result
    /\ last_doc' = tmp_file
    /\ mapped' = MappedBy(tmp_file)
    /\ tmp_path' = NoPath
    /\ peer' = PeerSeeing(tmp_path, tmp_file')
    /\ attempt' = 0
    /\ retry_delay' = InitialRetryDelay
    /\ attempts_made' = 0
    /\ failures' = 0
    /\ served' = NoFile
    /\ slept' = <<>>
    /\ UNCHANGED <<now, client, emails, html_content, xml_url, xml_errors,
                   unread, content, attempted, mark_issued, last_op>>
    /\ UNCHANGED norm_vars

\* Loop body, lines 67-68: mark_messages_as_read, then the next message
MarkRead ==
    /\ pc = "mark"
    /\ mark_issued' = mark_issued \cup {message_id}
    /\ \E api \in ApiOutcomes :
         LET r == MarkMessagesAsRead(client, api, now)
         IN  /\ last_op' = OpRecord("mark_messages_as_read", client, now, r)
             /\ client' = r.client
             /\ unread' = IF r.marked THEN unread \ {message_id} ELSE unread
             /\ error' = IF r.raised THEN MailboxError ELSE error
             /\ IF r.raised THEN RaiseToCaller ELSE AdvanceLoop
    /\ UNCHANGED <<now, emails, html_content, xml_url, xml_errors, content,
                   db_tables, download_vars, attempted, outcome,
                   committed_in_run, doc_history>>
    /\ UNCHANGED <<peer, norm_vars>>

Next ==
    \/ ModuleConnect
    \/ ListUnread
    \/ FetchContent
    \/ ExtractLink
    \/ DownloadAttempt
    \/ ParseAndPersist
    \/ MarkRead
    \/ Tick

Spec == Init /\ [][Next]_vars

\* A call of process_invoices that has started goes on to its next
\* statement: every request it sends has a timeout (zoho_client.py lines 55,
\* 116, 153, 207: timeout=50; xml_job.py line 311: timeout=30.0), so each
\* ends with an answer or with an exception, and asyncio.sleep returns
RunStep ==
    \/ FetchContent
    \/ ExtractLink
    \/ DownloadAttempt
    \/ ParseAndPersist
    \/ MarkRead


(* ------------- download_parse_delete on every document ---------------- *)

\* The client after the refresh at import answered 200 with a token and no
\* expires_in
ConnectedClient ==
    [NewClient(0) EXCEPT !.access_token = FreshToken,
                         !.token_expiry = 0 + DefaultExpiresIn]

\* The record of that connect()
ConnectedAtImport ==
    OpRecord("connect", NewClient(0), 0,
             Connect(NewClient(0),
                     [transport |-> "ok", status |-> HTTP_OK, json |-> TRUE,
                      has_token |-> TRUE, expires |-> "absent",
                      expires_in |-> 0], 0))

\* The handler inside download_parse_delete for the one unread message of
\* the mailbox, when the first GET of _download_xml has stored document d
Downloaded(d) ==
    /\ now = 0
    /\ client = ConnectedClient
    /\ unread = {1}
    /\ content = [m \in {1} |-> <<"a_other", "a_sat_xml">>]
    /\ invoices = <<>> /\ issuers = <<>> /\ recipients = <<>> /\ items = <<>>
    /\ pc = "parse"
    /\ emails = <<1>>
    /\ idx = 1
    /\ html_content = <<"a_other", "a_sat_xml">>
    /\ xml_url = SatXmlUrl
    /\ xml_errors = <<>>
    /\ attempt = 0
    /\ retry_delay = InitialRetryDelay
    /\ tmp_path = TmpPath(Timestamp(0))
    /\ tmp_file = d
    /\ peer = IdleRun
    /\ result = "none"
    /\ error = NoError
    /\ attempted = <<1>>
    /\ outcome = [m \in Msgs |-> "none"]
    /\ committed_in_run = {}
    /\ mark_issued = {}
    /\ attempts_made = 1
    /\ failures = 0
    /\ served = d
    /\ slept = <<>>
    /\ last_doc = NoFile
    /\ mapped = NotMapped
    /\ last_op = OpRecord("get_email_content", ConnectedClient, 0,
                          GetEmailContent(ConnectedClient, UnusedResponse,
                                          UnusedResponse, "ok", 0))

InitDoc == NormIdle /\ \E d \in AllDocs : Downloaded(d)

NextDoc ==
    \/ ParseAndPersist
    \/ MarkRead

SpecDoc == InitDoc /\ [][NextDoc]_vars

(* ------------- two overlapping calls of process_invoices --------------- *)

\* process_invoices is an `async def` endpoint: two requests are two calls
\* on one event loop, each with its own locals and its own database
\* session.  The loop takes the running call off at an await that waits:
\* the GET and the sleep of _download_xml (lines 312, 326) and the exit of
\* its `async with` block after write_bytes (lines 311-314); a call that
\* has not started or has ended is off as well.  The client's methods are
\* synchronous and ParseAndPersist has no await that waits.
AwaitPoints == {"idle", "download", "parse", "done"}

\* The running call is taken off and the other call runs.  Both see one
\* /tmp: the file at the resumed call's tmp_path is what the other left
Switch ==
    /\ pc \in AwaitPoints
    /\ pc' = peer.pc
    /\ emails' = peer.emails
    /\ idx' = peer.idx
    /\ html_content' = peer.html_content
    /\ xml_url' = peer.xml_url
    /\ xml_errors' = peer.xml_errors
    /\ attempt' = peer.attempt
    /\ retry_delay' = peer.retry_delay
    /\ tmp_path' = peer.tmp_path
    /\ tmp_file' = peer.tmp_file
    /\ result' = peer.result
    /\ error' = peer.error
    /\ attempted' = peer.attempted
    /\ outcome' = peer.outcome
    /\ committed_in_run' = peer.committed_in_run
    /\ mark_issued' = peer.mark_issued
    /\ attempts_made' = peer.attempts_made
    /\ failures' = peer.failures
    /\ served' = peer.served
    /\ slept' = peer.slept
    /\ last_doc' = peer.last_doc
    /\ mapped' = peer.mapped
    /\ peer' = RunLocals
    /\ UNCHANGED <<now, client, store_vars, last_op, norm_vars>>

\* Two requests arrive after the import: the client is connected, the
\* mailbox holds one unread message with a download link, no call has
\* started
InitPair ==
    /\ NormIdle
    /\ now = 0
    /\ client = ConnectedClient
    /\ unread = {1}
    /\ content = [m \in {1} |-> <<"a_other", "a_sat_xml">>]
    /\ invoices = <<>> /\ issuers = <<>> /\ recipients = <<>> /\ items = <<>>
    /\ pc = IdleRun.pc
    /\ emails = IdleRun.emails
    /\ idx = IdleRun.idx
    /\ html_content = IdleRun.html_content
    /\ xml_url = IdleRun.xml_url
    /\ xml_errors = IdleRun.xml_errors
    /\ attempt = IdleRun.attempt
    /\ retry_delay = IdleRun.retry_delay
    /\ tmp_path = IdleRun.tmp_path
    /\ tmp_file = IdleRun.tmp_file
    /\ result = IdleRun.result
    /\ error = IdleRun.error
    /\ attempted = IdleRun.attempted
    /\ outcome = IdleRun.outcome
    /\ committed_in_run = IdleRun.committed_in_run
    /\ mark_issued = IdleRun.mark_issued
    /\ attempts_made = IdleRun.attempts_made
    /\ failures = IdleRun.failures
    /\ served = IdleRun.served
    /\ slept = IdleRun.slept
    /\ last_doc = IdleRun.last_doc
    /\ mapped = IdleRun.mapped
    /\ peer = IdleRun
    /\ last_op = ConnectedAtImport

NextPair ==
    \/ ListUnread
    \/ FetchContent
    \/ ExtractLink
    \/ DownloadAttempt
    \/ ParseAndPersist
    \/ MarkRead
    \/ Tick
    \/ Switch

SpecPair == InitPair /\ [][NextPair]_vars

(* ------------------ one call, from its first statement ---------------- *)

\* A request arrives after the import: the client is connected, the mailbox
\* holds any messages, the call has not started
InitRun ==
    /\ NormIdle
    /\ now = 0
    /\ client = ConnectedClient
    /\ \E n \in 0..MaxMsgs : unread = 1..n /\ content \in [1..n -> Htmls]
    /\ invoices = <<>> /\ issuers = <<>> /\ recipients = <<>> /\ items = <<>>
    /\ pc = IdleRun.pc
    /\ emails = IdleRun.emails
    /\ idx = IdleRun.idx
    /\ html_content = IdleRun.html_content
    /\ xml_url = IdleRun.xml_url
    /\ xml_errors = IdleRun.xml_errors
    /\ attempt = IdleRun.attempt
    /\ retry_delay = IdleRun.retry_delay
    /\ tmp_path = IdleRun.tmp_path
    /\ tmp_file = IdleRun.tmp_file
    /\ result = IdleRun.result
    /\ error = IdleRun.error
    /\ attempted = IdleRun.attempted
    /\ outcome = IdleRun.outcome
    /\ committed_in_run = IdleRun.committed_in_run
    /\ mark_issued = IdleRun.mark_issued
    /\ attempts_made = IdleRun.attempts_made
    /\ failures = IdleRun.failures
    /\ served = IdleRun.served
    /\ slept = IdleRun.slept
    /\ last_doc = IdleRun.last_doc
    /\ mapped = IdleRun.mapped
    /\ peer = IdleRun
    /\ last_op = ConnectedAtImport

NextRun ==
    \/ ListUnread
    \/ RunStep

SpecLive == InitRun /\ [][NextRun]_vars /\ WF_vars(RunStep)

(* ------- download_parse_delete, lines 38-60: decode and strip ---------- *)

\* The bytes a file is made of: NUL, TAB, LF, CR, the highest control
\* character 0x1F, "A", the UTF-8 continuation bytes 0x82 and 0xA9, the lead
\* bytes 0xC3 (of two) and 0xE2 (of three), and 0xFF, which no UTF-8 holds
ByteAlphabet == {0, 9, 10, 13, 31, 65, 130, 169, 195, 226, 255}
ByteSeqs == UNION {[1..n -> ByteAlphabet] : n \in 0..MaxBytes}

\* The mark a decoder leaves where the bytes are no character
Undecodable == 0 - 1

\* UTF-8: the continuation bytes the lead byte b0 asks for (-1: no lead
\* byte), and the range of the first of them
Utf8Need(b0) ==
    IF b0 < 128 THEN 0
    ELSE IF b0 \in 194..223 THEN 1
    ELSE IF b0 \in 224..239 THEN 2
    ELSE IF b0 \in 240..244 THEN 3
    ELSE 0 - 1

Utf8SecondRange(b0) ==
    (IF b0 = 224 THEN 160 ELSE IF b0 = 240 THEN 144 ELSE 128) ..
    (IF b0 = 237 THEN 159 ELSE IF b0 = 244 THEN 143 ELSE 191)

\* UTF-8: whether byte i of b continues the character that b[1] starts
Utf8ContOk(b, i) ==
    /\ i <= Len(b)
    /\ IF i = 2 THEN b[i] \in Utf8SecondRange(b[1]) ELSE b[i] \in 128..191

\* UTF-8, the first character of the non-empty b: its code point (or
\* Undecodable) and the bytes it takes; an ill-formed sequence takes its
\* longest well-formed start
Utf8Step(b) ==
    LET need == Utf8Need(b[1])
        good == IF need < 1 THEN 0
                ELSE CHOOSE j \in 0..need :
                       /\ \A i \in 2..(j + 1) : Utf8ContOk(b, i)
                       /\ j < need => ~Utf8ContOk(b, j + 2)
    IN  IF need < 0 THEN [cp |-> Undecodable, used |-> 1]
        ELSE IF good < need THEN [cp |-> Undecodable, used |-> 1 + good]
        ELSE IF need = 0 THEN [cp |-> b[1], used |-> 1]
        ELSE IF need = 1
        THEN [cp |-> (b[1] - 192) * 64 + (b[2] - 128), used |-> 2]
        ELSE IF need = 2
        THEN [cp |-> (b[1] - 224) * 4096 + (b[2] - 128) * 64 + (b[3] - 128),
              used |-> 3]
        ELSE [cp |-> (b[1] - 240) * 262144 + (b[2] - 128) * 4096
                     + (b[3] - 128) * 64 + (b[4] - 128),
              used |-> 4]

\* UTF-8: the characters of b, Undecodable where b is ill-formed
RECURSIVE Utf8Chars(_)
Utf8Chars(b) ==
    IF b = <<>> THEN <<>>
    ELSE <<Utf8Step(b).cp>> \o Utf8Chars(SubSeq(b, Utf8Step(b).used + 1, Len(b)))

\* str.encode("utf-8") of one code point and of a string
Utf8EncodeChar(c) ==
    IF c < 128 THEN <<c>>
    ELSE IF c < 2048 THEN <<192 + (c \div 64), 128 + (c % 64)>>
    ELSE IF c < 65536
    THEN <<224 + (c \div 4096), 128 + ((c \div 64) % 64), 128 + (c % 64)>>
    ELSE <<240 + (c \div 262144), 128 + ((c \div 4096) % 64),
           128 + ((c \div 64) % 64), 128 + (c % 64)>>

RECURSIVE Utf8Encode(_)
Utf8Encode(str) ==
    IF str = <<>> THEN <<>>
    ELSE Utf8EncodeChar(Head(str)) \o Utf8Encode(Tail(str))

\* UTF-16: the characters of the code units of b in the byte order le,
\* Undecodable for a lone surrogate or a trailing byte
RECURSIVE Utf16Chars(_, _)
Utf16Chars(b, le) ==
    IF b = <<>> THEN <<>>
    ELSE IF Len(b) = 1 THEN <<Undecodable>>
    ELSE LET u == IF le THEN b[1] + 256 * b[2] ELSE 256 * b[1] + b[2]
             v == IF Len(b) < 4 THEN 0
                  ELSE IF le THEN b[3] + 256 * b[4] ELSE 256 * b[3] + b[4]
         IN  IF u \in 55296..56319
             THEN IF v \in 56320..57343
                  THEN <<65536 + (u - 55296) * 1024 + (v - 56320)>>
                       \o Utf16Chars(SubSeq(b, 5, Len(b)), le)
                  ELSE <<Undecodable>>
             ELSE IF u \in 56320..57343 THEN <<Undecodable>>
             ELSE <<u>> \o Utf16Chars(SubSeq(b, 3, Len(b)), le)

\* The universal-newlines translation of a file read in text mode: "\r\n"
\* and "\r" become "\n"
RECURSIVE UniversalNewlines(_)
UniversalNewlines(str) ==
    IF str = <<>> THEN <<>>
    ELSE IF Head(str) = CR
    THEN IF Len(str) >= 2 /\ str[2] = LF
         THEN <<LF>> \o UniversalNewlines(SubSeq(str, 3, Len(str)))
         ELSE <<LF>> \o UniversalNewlines(Tail(str))
    ELSE <<Head(str)>> \o UniversalNewlines(Tail(str))

\* What a decoder makes of the characters it found
Text(chars) ==
    IF \E i \in 1..Len(chars) : chars[i] = Undecodable
    THEN [kind |-> "UnicodeDecodeError", str |-> <<>>]
    ELSE [kind |-> "ok", str |-> UniversalNewlines(chars)]

HasPrefix(b, pre) == Len(b) >= Len(pre) /\ SubSeq(b, 1, Len(pre)) = pre

\* tmp_path.read_text(encoding=enc) of a file that holds b.  latin-1 maps
\* every byte to the code point of the same number.  utf-8-sig skips a
\* leading byte order mark, and reads a file that is a start of the mark as
\* empty.  utf-16 without a byte order mark decodes little-endian and then
\* raises UnicodeError, which is no UnicodeDecodeError, when it decoded a
\* code unit.
ReadText(enc, b) ==
    IF enc = "utf-8" THEN Text(Utf8Chars(b))
    ELSE IF enc = "latin-1" THEN Text(b)
    ELSE IF enc = "utf-8-sig"
    THEN IF HasPrefix(b, <<239, 187, 191>>)
         THEN Text(Utf8Chars(SubSeq(b, 4, Len(b))))
         ELSE IF HasPrefix(<<239, 187, 191>>, b) THEN Text(<<>>)
         ELSE Text(Utf8Chars(b))
    ELSE IF HasPrefix(b, <<255, 254>>)
    THEN Text(Utf16Chars(SubSeq(b, 3, Len(b)), TRUE))
    ELSE IF HasPrefix(b, <<254, 255>>)
    THEN Text(Utf16Chars(SubSeq(b, 3, Len(b)), FALSE))
    ELSE IF Text(Utf16Chars(b, TRUE)).kind = "ok" /\ Len(b) >= 2
    THEN [kind |-> "UnicodeError", str |-> <<>>]
    ELSE Text(Utf16Chars(b, TRUE))

\* The encodings of line 39 with latin-1, which decodes every file, first
EncodingsLatin1First == <<"latin-1", "utf-8", "utf-8-sig", "utf-16">>

\* Line 39: the encodings tried, in order
Encodings == <<"utf-8", "latin-1", "utf-8-sig", "utf-16">>

\* Lines 39-48: the first encoding that raises no UnicodeDecodeError;
\* "none" when every one does (xml_str stays None)
RECURSIVE DecodeLoop(_, _)
DecodeLoop(encs, b) ==
    IF encs = <<>> THEN [kind |-> "none", str |-> <<>>]
    ELSE IF ReadText(Head(encs), b).kind = "UnicodeDecodeError"
    THEN DecodeLoop(Tail(encs), b)
    ELSE ReadText(Head(encs), b)

\* Lines 50-52: raw.decode("utf-8", errors="replace")
DecodeReplace(b) ==
    [i \in 1..Len(Utf8Chars(b)) |->
        IF Utf8Chars(b)[i] = Undecodable THEN ReplacementChar ELSE Utf8Chars(b)[i]]

\* Lines 38-52: xml_str after the decoding, or the exception that leaves it
Decode(b) ==
    IF DecodeLoop(Encodings, b).kind = "none"
    THEN [kind |-> "ok", str |-> DecodeReplace(b)]
    ELSE DecodeLoop(Encodings, b)

\* The test of line 59 with the bound one too low: ch >= "\x1f"
AllowedFromUnitSeparator(ch) == ch >= FirstAllowed - 1 \/ ch \in {TAB, LF, CR}

\* Line 59: ch >= "\x20" or ch in allowed
Allowed(ch) == ch >= FirstAllowed \/ ch \in {TAB, LF, CR}

\* Lines 58-60: the characters that pass the test, in order
Strip(str) == SelectSeq(str, Allowed)

\* Lines 38-52 as a step
DecodeFile ==
    /\ norm_pc = "decode"
    /\ xml_str' = Decode(raw_bytes).str
    /\ norm_pc' = IF Decode(raw_bytes).kind = "ok" THEN "strip" ELSE "raised"
    /\ UNCHANGED <<raw_bytes, norm_pass, first_str, handler_vars>>

\* Lines 54-60 as a step
StripControls ==
    /\ norm_pc = "strip"
    /\ xml_str' = Strip(xml_str)
    /\ norm_pc' = "clean"
    /\ UNCHANGED <<raw_bytes, norm_pass, first_str, handler_vars>>

\* The result of the step, as UTF-8 bytes, is the file of a second pass
NormalizeAgain ==
    /\ norm_pc = "clean"
    /\ norm_pass = 1
    /\ first_str' = xml_str
    /\ raw_bytes' = Utf8Encode(xml_str)
    /\ xml_str' = <<>>
    /\ norm_pass' = 2
    /\ norm_pc' = "decode"
    /\ UNCHANGED handler_vars

\* The file holds any bytes; every sequence of at most MaxBytes bytes is no
\* well-formed XML, so the document is the malformed one
InitNorm ==
    /\ Downloaded(Unreadable(FALSE, ""))
    /\ raw_bytes \in ByteSeqs
    /\ xml_str = <<>>
    /\ norm_pc = "decode"
    /\ norm_pass = 1
    /\ first_str = <<>>

NextNorm ==
    \/ DecodeFile
    \/ StripControls
    \/ NormalizeAgain

SpecNorm == InitNorm /\ [][NextNorm]_vars

(* ------------------------------- claims -------------------------------- *)

\* Whether a content holds an anchor to an XML download of the certification
\* service
HasXmlAnchor(html) == \E i \in 1..Len(html) : html[i] = "a_sat_xml"

\* The entries of the error list that name message m
ErrorsOf(m) == SelectSeq(xml_errors, LAMBDA e : e.messageId = m)

\* The refresh requests in the log of the latest client operation
RefreshesOf(log) == SelectSeq(log, LAMBDA e : e.ev = "refresh")

\* C1: in every run a message is marked read only if an invoice for its
\* document was committed earlier in the same run.
C1_MarkOnlyAfterCommit == mark_issued \subseteq committed_in_run

\* C2: when a document parses but its Recipient NIT matches no tenant, the
\* message is not marked read in that run and exactly one resolution failure
\* is recorded for it in the run's error list.
C2_UnknownTenantRecordedNotMarked ==
    pc = "done" =>
        \A m \in Msgs :
            outcome[m] = "no_tenant" =>
                /\ m \notin mark_issued
                /\ Len(ErrorsOf(m)) = 1

\* C3: a failure of any non-authentication step of a listed message's
\* sub-pipeline is caught at the per-message boundary and recorded in the
\* error list, every message listed after it is still attempted, and the run
\* is not aborted.
NonAuthFailures ==
    {"fetch_error", "fetch_empty", "no_link", "download_failed", "parse_error",
     "no_tenant", "persist_error"}

C3_FailureIsolatedPerMessage ==
    pc = "done" =>
        \A k \in 1..Len(emails) :
            outcome[emails[k]] \in NonAuthFailures =>
                /\ result # "raised"
                /\ Len(ErrorsOf(emails[k])) >= 1
                /\ \A j \in (k + 1)..Len(emails) :
                       \E i \in 1..Len(attempted) : attempted[i] = emails[j]

\* C4: a run over two unread messages, one whose content yields a valid XML
\* link and whose document persists, one whose content yields no link, in
\* either listing order, ends with exactly the first marked read, the other
\* unread, and one entry in the failure list, for the message without link.
\* The scenario has no fault of the mailbox: the content of both messages is
\* fetched when asked for, and a requested mark-read succeeds.
C4_Scenario(a, b) ==
    /\ pc = "done"
    /\ Len(emails) = 2
    /\ {a, b} = {emails[1], emails[2]}
    /\ a # b
    /\ HasXmlAnchor(content[a])
    /\ Truthy(content[b]) /\ ~HasXmlAnchor(content[b])
    /\ outcome[a] \in {"none", "committed"}
    /\ outcome[b] \notin {"fetch_error", "auth_error"}
    /\ a \in mark_issued => a \notin unread

C4_OneReadOneSkipped ==
    \A a, b \in Msgs :
        C4_Scenario(a, b) =>
            /\ a \notin unread
            /\ b \in unread
            /\ Len(xml_errors) = 1
            /\ xml_errors[1].messageId = b

\* C5: for a message whose content holds no certification-service download
\* link, extraction reports absence and the sub-pipeline stops at Extracting:
\* no download attempt is ever made for it.
C5_NoDownloadWithoutLink ==
    ~HasXmlAnchor(html_content) =>
        /\ pc \notin {"download", "parse"}
        /\ attempts_made = 0

\* C6: every mailbox API call is preceded, within the same operation, by the
\* credential validity check, so that no mailbox request is sent with an
\* access token whose expiry instant has passed.
C6_NoRequestWithExpiredToken ==
    \A i \in 1..Len(last_op.log) :
        last_op.log[i].ev = "request" => ~last_op.log[i].expired

C8_FailedRefreshLeavesCredential ==
    last_op.refresh \in {"non_2xx", "network_error"} =>
        /\ last_op.refresh_raised
        /\ client.access_token = last_op.before.access_token
        /\ client.token_expiry = last_op.before.token_expiry
        /\ client.refresh_token = last_op.before.refresh_token
        /\ client.client_id = last_op.before.client_id
        /\ client.client_secret = last_op.before.client_secret

C8_Witness ==
    /\ last_op.name = "get_email_content"
    /\ last_op.refresh = "non_2xx"
    /\ last_op.before.access_token = FreshToken
    /\ result = "raised"

\* C9: a download that fails N times (N + 1 <= max attempts) and then
\* succeeds performs exactly N + 1 attempts, stores the payload of the
\* successful attempt, and returns without error.
C9_DownloadAfterNFailures ==
    pc = "parse" =>
        /\ attempts_made = failures + 1
        /\ attempts_made <= max_retries
        /\ tmp_file = served
        /\ served \in Docs
        /\ result = "none"

C9_Witness ==
    /\ pc = "parse"
    /\ failures = max_retries - 1
    /\ tmp_file \in Docs

\* C10: a download never performs more than max attempts: after the 5th
\* consecutive failed attempt no further attempt is made, the download error
\* is raised to the caller, and the message is not marked read in that run.
C10_RetriesBounded ==
    /\ attempts_made <= max_retries
    /\ failures >= max_retries =>
           /\ attempts_made = max_retries
           /\ pc = "done"
           /\ result = "raised"
           /\ outcome[message_id] = "download_failed"
           /\ message_id \notin mark_issued
           /\ message_id \in unread

C10_Witness ==
    /\ failures = max_retries
    /\ xml_url = SatXmlUrl
    /\ pc = "done"

C12_NoRowsWithoutTenant ==
    [][(/\ pc = "parse"
        /\ tmp_file.wellformed
        /\ tmp_file.path
        /\ tmp_file.nit \notin CompaniesNit)
       => /\ invoices' = invoices
          /\ issuers' = issuers
          /\ recipients' = recipients
          /\ items' = items]_vars

C12_Witness ==
    /\ pc = "mark"
    /\ outcome[message_id] = "no_tenant"
    /\ last_doc.nit = UnknownNit
    /\ mapped.called /\ ~mapped.raised
    /\ Len(invoices) = 1
    /\ Len(issuers) = 1 /\ Len(recipients) = 1 /\ Len(items) = 1

\* The tables hold whole invoice graphs only: one Issuer and one Recipient
\* row per Invoices row, and no Item row without its Invoices row
WholeGraphsOnly ==
    /\ Len(invoices) = Cardinality(committed_in_run)
    /\ Len(issuers) = Len(invoices)
    /\ Len(recipients) = Len(invoices)
    /\ \A i \in 1..Len(items) : items[i].invoice \in 1..Len(invoices)

\* The exception a document that does not parse is reported with
ParseErrorReport ==
    ParseAndSave(Unreadable(FALSE, ""), xml_url, "ok",
                 [invoices |-> invoices, issuers |-> issuers,
                  recipients |-> recipients, items |-> items]).error

\* C13: the Issuer, Recipient, Item and Invoice rows of one invoice are
\* committed all together or not at all: after a persistence failure no row
\* of that invoice graph exists in the store, and the failure is reported to
\* the caller as a persistence error distinct from a parse error.
C13_AtomicSaveReportedAsPersistError ==
    /\ WholeGraphsOnly
    /\ (pc = "done" /\ idx >= 1 /\ outcome[message_id] = "persist_error") =>
           /\ message_id \notin committed_in_run
           /\ error # NoError
           /\ error # ParseErrorReport

\* C14: if the mark-read call fails (non-200 status or transport error)
\* after a message's invoice was committed, the invoice stays committed, the
\* failure is only logged (no exception reaches the orchestrator), and the
\* run goes on to the next message.  A message whose mark-read was requested
\* and which the mailbox still lists as unread is one whose call failed.
C14_MarkFailureOnlyLogged ==
    \A k \in 1..Len(emails) :
        (/\ emails[k] \in mark_issued
         /\ emails[k] \in unread
         /\ emails[k] \in committed_in_run) =>
            /\ Len(invoices) = Cardinality(committed_in_run)
            /\ idx >= k
            /\ idx = k => (k = Len(emails) /\ pc = "done" /\ result = "returned")
            /\ result = "raised" => idx > k

C14_Witness ==
    /\ Len(emails) = 2
    /\ {emails[1]} = mark_issued \cap unread
    /\ committed_in_run = {emails[1], emails[2]}
    /\ Len(invoices) = 2
    /\ pc = "done"
    /\ result = "returned"

\* The listed messages for which no invoice was committed in the run
NotSucceeded == {k \in 1..Len(emails) : emails[k] \notin committed_in_run}

\* C19: when a run completes, the triggering caller receives a summary of
\* the run in which the number of attempted messages equals the number of
\* listed messages and equals succeeded plus failed, with one failure entry
\* for every message that was skipped or failed.
C19_CallerReceivesSummary ==
    (pc = "done" /\ result \in {"returned", "returned_empty"}) =>
        /\ Response(result).body = "summary"
        /\ Response(result).attempted = Len(emails)
        /\ Response(result).attempted =
               Response(result).succeeded + Response(result).failed
        /\ Len(Response(result).failures) = Cardinality(NotSucceeded)

\* C20: if a credential refresh fails during a run, the run aborts: the error
\* propagates to the caller and, from that point on, no further message is
\* fetched, downloaded, persisted or marked read in that run.
C20_RefreshFailureAbortsRun ==
    \A k \in 1..Len(emails) :
        outcome[emails[k]] = "auth_error" =>
            /\ pc = "done"
            /\ result = "raised"
            /\ error = MailboxError
            /\ idx = k
            /\ Len(attempted) = k
            /\ attempts_made = 0
            /\ \A j \in k..Len(emails) :
                   /\ emails[j] \notin mark_issued
                   /\ emails[j] \notin committed_in_run
                   /\ j > k => outcome[emails[j]] = "none"
            /\ Len(invoices) = Cardinality(committed_in_run)

C20_Witness ==
    /\ Len(emails) = 2
    /\ outcome[emails[1]] = "auth_error"
    /\ last_op.refresh_raised
    /\ pc = "done"
    /\ unread = {emails[1], emails[2]}

\* The item elements of a document, in document order
ItemElements(doc) == doc.items.value

\* C17: for every document, the mapped item list has one entry per item
\* element of the document, in document order; in particular a document
\* whose single item arrives as one record instead of a list yields exactly
\* one item.
C17_OneItemPerElement ==
    /\ (mapped.called /\ ~mapped.raised) =>
           /\ Len(mapped.mapped) = Len(ItemElements(last_doc))
           /\ \A i \in 1..Len(mapped.mapped) :
                  mapped.mapped[i].line_number = ItemElements(last_doc)[i].line
    /\ (/\ last_doc.wellformed
        /\ last_doc.path
        /\ last_doc.items.kind = "dict"
        /\ ~MapItem(ItemElements(last_doc)[1]).raised) =>
           /\ mapped.called
           /\ ~mapped.raised
           /\ Len(mapped.mapped) = 1
    /\ (idx >= 1 /\ outcome[message_id] = "committed") =>
           /\ Len(items) = Len(ItemElements(last_doc))
           /\ \A i \in 1..Len(items) :
                  items[i].line_number = ItemElements(last_doc)[i].line

C17_Witness ==
    /\ pc = "mark"
    /\ last_doc.items.kind = "dict"
    /\ outcome[message_id] = "committed"
    /\ Len(items) = 1
    /\ items[1].line_number = ItemElements(last_doc)[1].line

\* A document that is malformed or lacks a block needed to construct
\* Issuer, Recipient or Invoice
LacksBlock(doc) ==
    \/ ~doc.wellformed
    \/ ~doc.path
    \/ ~doc.emisor
    \/ ~doc.receptor
    \/ ~doc.general
    \/ ~doc.totales
    \/ ~doc.autor

\* C18: parsing fails with an error whenever the document is malformed or
\* lacks a block needed to construct Issuer, Recipient or Invoice (issuer
\* block, recipient block, general-data block, totals block,
\* authorization-number block): no Invoice is produced or persisted from
\* such a document.
C18_ParseFailsOnMissingBlock ==
    (pc # "parse" /\ idx >= 1 /\ last_doc # NoFile /\ LacksBlock(last_doc)) =>
        /\ outcome[message_id] = "parse_error"
        /\ error = XmlJobError
        /\ invoices = <<>>
        /\ issuers = <<>>

\* C15: for every byte sequence, normalization (the decode-and-strip step of
\* download_parse_delete) yields a string without raising, and that string
\* contains no character with code point below 0x20 other than TAB (0x09),
\* LF (0x0A) and CR (0x0D).
C15_NormalizeTotalAndClean ==
    /\ norm_pc # "raised"
    /\ norm_pc = "clean" =>
           \A i \in 1..Len(xml_str) :
               \/ xml_str[i] >= 32
               \/ xml_str[i] \in {9, 10, 13}

C15_Witness ==
    /\ norm_pc = "clean"
    /\ norm_pass = 1
    /\ raw_bytes = <<0, 65, 31>>
    /\ xml_str = <<65>>

\* C16: normalization is idempotent: for every byte sequence b, normalizing
\* the bytes of normalize(b) gives exactly normalize(b).
C16_NormalizeIdempotent ==
    (norm_pc = "clean" /\ norm_pass = 2) => xml_str = first_str

C16_Witness ==
    /\ norm_pc = "clean"
    /\ norm_pass = 2
    /\ first_str = <<195, 10>>
    /\ raw_bytes = <<195, 131, 10>>
    /\ xml_str = first_str

\* Whether sequence s is the beginning of sequence t
IsPrefix(s, t) == Len(s) <= Len(t) /\ \A i \in 1..Len(s) : t[i] = s[i]

\* C21: ingesting the same source document again (for example because its
\* message stayed unread after a failed mark-read and a later run processes
\* it) inserts a new Invoice row with its own Issuer, Recipient and Item rows;
\* no run ever updates or deletes a previously persisted invoice row.
C21_ReingestionAddsRows ==
    [][/\ IsPrefix(invoices, invoices')
       /\ IsPrefix(issuers, issuers')
       /\ IsPrefix(recipients, recipients')
       /\ IsPrefix(items, items')
       /\ (pc = "parse" /\ pc' = "mark" /\ outcome'[message_id] = "committed") =>
              LET id == Len(invoices) + 1
              IN  /\ Len(invoices') = id
                  /\ invoices'[id].xml_url = xml_url
                  /\ Len(issuers') = Len(issuers) + 1
                  /\ issuers'[Len(issuers')].invoice = id
                  /\ Len(recipients') = Len(recipients) + 1
                  /\ recipients'[Len(recipients')].invoice = id
                  /\ Len(items') = Len(items) + Len(mapped'.mapped)
                  /\ \A i \in (Len(items) + 1)..Len(items') :
                         items'[i].invoice = id]_vars

C21_Witness ==
    /\ peer.pc = "done"
    /\ peer.result = "returned"
    /\ peer.committed_in_run = {1}
    /\ 1 \in peer.mark_issued
    /\ 1 \in unread
    /\ pc = "mark"
    /\ outcome[1] = "committed"
    /\ Len(invoices) = 2
    /\ invoices[1].xml_url = invoices[2].xml_url
    /\ issuers[2].invoice = 2
    /\ recipients[2].invoice = 2
    /\ Len(items) = 2
    /\ items[2].invoice = 2

\* The messages of the run, before position k of the listing, for which an
\* invoice was committed
CommittedBefore(k) == {j \in 1..(k - 1) : emails[j] \in committed_in_run}

\* C22: each invoice is committed in its own transaction: when message k of
\* a run fails at any step, or the run aborts, every invoice committed for
\* messages processed earlier in the same run remains persisted.
C22_EarlierCommitsStay ==
    \A k \in 1..Len(emails) :
        (k = idx /\ (outcome[emails[k]] \notin {"none", "committed"}
                     \/ result = "raised")) =>
            /\ Len(invoices) = Cardinality(CommittedBefore(k))
            /\ Len(issuers) = Len(invoices)
            /\ Len(recipients) = Len(invoices)
            /\ \A i \in 1..Len(invoices) :
                   /\ issuers[i].invoice = i
                   /\ recipients[i].invoice = i
                   /\ \E n \in 1..Len(items) : items[n].invoice = i

C22_Witness ==
    /\ pc = "done"
    /\ result = "raised"
    /\ idx = 2
    /\ emails[1] \in committed_in_run
    /\ outcome[emails[2]] = "persist_error"
    /\ Len(invoices) = 1
    /\ issuers[1].invoice = 1

\* C23: in a download, the delay slept before attempt k+1 is exactly k
\* time-units (1, 2, 3, 4 for the default 5 attempts); a sleep happens only
\* between a failed attempt and the next attempt, never after the final
\* failed attempt and never after a successful attempt.
C23_LinearDelayBetweenAttempts ==
    /\ \A k \in 1..Len(slept) : slept[k] = k
    /\ Len(slept) < max_retries
    /\ pc = "download" => (Len(slept) = failures /\ attempts_made = failures)
    /\ pc = "parse" => (Len(slept) = failures /\ attempts_made = failures + 1)
    /\ failures = max_retries =>
           (Len(slept) = max_retries - 1 /\ attempts_made = max_retries)

C23_Witness ==
    /\ pc = "done"
    /\ failures = max_retries
    /\ slept = <<1, 2, 3, 4>>
    /\ retry_delay = max_retries

\* A document the mapper reads items of, each of them convertible, one at
\* least with several tax entries
HasSeveralTaxes(doc) ==
    /\ doc.wellformed
    /\ doc.path
    /\ doc.items.kind \in {"dict", "list"}
    /\ \A i \in 1..Len(ItemElements(doc)) : ItemElements(doc)[i].numeric
    /\ \E i \in 1..Len(ItemElements(doc)) : ItemElements(doc)[i].taxes = "list"

\* C24: for an item that carries several tax entries, the mapper takes the
\* first entry as the item's tax record and ignores the others (no
\* aggregation); the document still parses into an Invoice.
C24_FirstTaxEntryTaken ==
    (pc # "parse" /\ idx >= 1 /\ HasSeveralTaxes(last_doc)) =>
        /\ mapped.called
        /\ ~mapped.raised
        /\ Len(mapped.mapped) = Len(ItemElements(last_doc))
        /\ \A i \in 1..Len(mapped.mapped) :
               ItemElements(last_doc)[i].taxes = "list" =>
                   mapped.mapped[i].taxes = "of the first entry"

\* A document whose issuer, recipient and items map, which lacks a header
\* field _build_invoice indexes, and whose Recipient NIT has no tenant
LacksHeaderAndTenant(doc) ==
    /\ doc.wellformed
    /\ doc.path
    /\ ~doc.general \/ ~doc.autor \/ ~doc.totales
    /\ doc.nit \notin CompaniesNit

\* C25: tenant resolution happens only after the document has been
\* completely mapped and assembled into an Invoice (issuer, recipient, items
\* and header fields): a document that both lacks a mandatory header field
\* and names a Recipient NIT with no tenant ends as a parse failure, not as a
\* resolution failure.
C25_TenantResolvedAfterAssembly ==
    (/\ pc # "parse"
     /\ idx >= 1
     /\ LacksHeaderAndTenant(last_doc)
     /\ mapped.called
     /\ ~mapped.raised) =>
        /\ outcome[message_id] = "parse_error"
        /\ error = XmlJobError

\* C26: every persisted Invoice has total >= 0 and vat >= 0: a document
\* whose grand total or VAT amount is negative never results in an invoice
\* row carrying a negative amount.
C26_AmountsNonNegative ==
    \A i \in 1..Len(invoices) :
        /\ invoices[i].total >= 0
        /\ invoices[i].vat >= 0

\* C27: message pipelines that run concurrently (for example in two
\* overlapping runs) share no mutable state other than the Credential: in
\* particular the temp document path of one pipeline is private to it, so no
\* pipeline ever overwrites, reads or deletes another pipeline's downloaded
\* document.
C27_TempPathPrivate ==
    /\ ~SamePath(tmp_path)
    /\ pc = "parse" => tmp_file = served
    /\ peer.pc = "parse" => peer.tmp_file = peer.served

\* The positions of the sub-pipeline of a message
InSubPipeline == {"extract", "download", "parse", "mark"}

\* The sub-pipeline of message m has finished: it ended with an outcome, and
\* it was skipped by `continue` or its mark-read was requested
Finished(m) ==
    /\ outcome[m] # "none"
    /\ outcome[m] \in {"fetch_empty", "no_link"} \/ m \in mark_issued

\* C28: every run over a finite list of unread messages eventually
\* terminates (returns or raises), and within a run messages are handled
\* strictly one at a time in listing order: message k+1's content fetch never
\* starts before message k's sub-pipeline has finished, and a run that ends
\* without an aborting error has attempted every listed message exactly once.
C28_TerminatesInListingOrder ==
    /\ [](/\ IsPrefix(attempted, emails)
          /\ pc = "fetch" => Len(attempted) = idx - 1
          /\ pc \in InSubPipeline => Len(attempted) = idx
          /\ pc \in InSubPipeline \cup {"fetch"} =>
                 \A j \in 1..(idx - 1) : Finished(emails[j])
          /\ (pc = "done" /\ result = "returned") =>
                 /\ attempted = emails
                 /\ \A j \in 1..Len(emails) : Finished(emails[j]))
    /\ (pc \in InSubPipeline \cup {"fetch"}) ~> (pc = "done")

C28_Witness ==
    /\ pc = "done"
    /\ result = "returned"
    /\ Len(emails) = MaxMsgs
    /\ attempted = emails
    /\ outcome[emails[1]] = "fetch_empty"
    /\ outcome[emails[MaxMsgs]] = "committed"

\* The calls, of the two, whose download_parse_delete committed an invoice
\* for message m
CommitsFor(m) ==
    (IF m \in committed_in_run THEN 1 ELSE 0)
    + (IF m \in peer.committed_in_run THEN 1 ELSE 0)

\* C29: if two runs of process_invoices overlap and both list the same
\* unread message before either marks it read, each run that gets through
\* persistence commits its own invoice graph for that message: no lock, claim
\* on the message, or uniqueness check on authorization number or source URL
\* prevents the duplicate rows.
C29_OverlappingRunsBothCommit ==
    \A m \in Msgs :
        (emails = <<m>> /\ peer.emails = <<m>>) =>
            /\ Len(invoices) = CommitsFor(m)
            /\ Len(issuers) = Len(invoices)
            /\ Len(recipients) = Len(invoices)
            /\ \A i \in 1..Len(invoices) :
                   /\ invoices[i].xml_url = SatXmlUrl
                   /\ issuers[i].invoice = i
                   /\ recipients[i].invoice = i
                   /\ \E n \in 1..Len(items) : items[n].invoice = i

C29_Witness ==
    /\ emails = <<1>>
    /\ peer.emails = <<1>>
    /\ peer.pc = "done"
    /\ peer.committed_in_run = {1}
    /\ pc = "mark"
    /\ outcome[1] = "committed"
    /\ 1 \notin mark_issued
    /\ 1 \notin unread
    /\ Len(invoices) = 2
    /\ invoices[1] = invoices[2]

\* The lifetimes a refresh that returned can have granted
GrantedLifetimes == {DefaultExpiresIn} \cup (1..MaxExpiresIn)

====
